---- MODULE Spec2Model ----
(***************************************************************************)
(* ChronoFlow-AI mobile client: the App shell (src/App.js, auth bootstrap  *)
(* and navigation root) and the TasksScreen component                      *)
(* (src/unnamed/part_000: task list, search, filter, toggle, delete).      *)
(*                                                                         *)
(* JavaScript runs the handlers one at a time; a handler suspends at each  *)
(* `await`.  Every remote call is therefore three steps: the handler sends *)
(* the request, the remote service handles it at some later moment, and    *)
(* the settled promise resumes the handler's continuation.  Requests that  *)
(* are in flight together are handled and delivered in any order.          *)
(*                                                                         *)
(* Strings are sequences of one-character strings, so that toLowerCase     *)
(* and includes are computed and not assumed.                              *)
(***************************************************************************)
EXTENDS Integers, Sequences, FiniteSets, Bags, TLC

VARIABLES
    \* App (src/App.js)
    isLoading,      \* useState(true)
    userToken,      \* useState(null)
    appPc,          \* position of App: "start", "awaitToken", "done", "crashed"
    splashBound,    \* whether the identifier SplashScreen is bound in the build
    authStore,      \* what AuthService holds: Null or a token
    getTokenCalls,  \* number of AuthService.getToken() calls made
    obtained,       \* the token getToken delivered (Null when it rejected)
    \* remote task service
    server,         \* task id -> "open" | "done" | "gone"
    \* TasksScreen (src/unnamed/part_000)
    mounted,        \* the screen is rendered under the Main root
    tasks,          \* useState([])
    filteredTasks,  \* useState([])
    refreshing,     \* useState(false)
    searchQuery,    \* useState('')
    filter,         \* useState('all')
    confirmDialog,  \* the delete confirmation opened by Alert.alert
    alerts,         \* error notifications raised by Alert.alert, in order
    net,            \* bag of remote requests in flight
    tasksFilter,    \* the filter of the getTasks request whose result is in tasks
    deleteReloaded, \* ids whose confirmed delete and its reload both succeeded
    gestures        \* number of user gestures on the screen so far

appVars == <<isLoading, userToken, appPc, splashBound, authStore, getTokenCalls, obtained>>
screenVars == <<mounted, tasks, filteredTasks, refreshing, searchQuery, filter,
                confirmDialog, alerts, net, tasksFilter, deleteReloaded, gestures>>
vars == <<appVars, server, screenVars>>

-----------------------------------------------------------------------------
(* Bounds of the model *)

\* largest number of remote requests of the screen in flight together
MaxInFlight == 2

\* largest number of user gestures (filter, refresh, search, toggle, delete) in one
\* behaviour
MaxGestures == 3

-----------------------------------------------------------------------------
(* Values *)

Null == "null"
Token == "token"

Filters == {"all", "today", "upcoming", "completed"}

LoadFailedMsg == "load_failed"
UpdateFailedMsg == "update_failed"
DeleteFailedMsg == "delete_failed"

\* The tasks the remote service holds at start: title, optional description, due class.
Catalog ==
    << [title |-> <<"A", "b">>, hasDescription |-> FALSE, description |-> <<>>,
        due |-> "today"],
       [title |-> <<"a">>, hasDescription |-> TRUE, description |-> <<"B">>,
        due |-> "upcoming"] >>

TaskIds == DOMAIN Catalog

\* Texts typed into the search bar.
Queries == { <<>>, <<"a", "B">>, <<"B">> }

-----------------------------------------------------------------------------
(* Strings *)

LowerChar(c) ==
    CASE c = "A" -> "a"
      [] c = "B" -> "b"
      [] OTHER -> c

toLowerCase(s) == [i \in 1..Len(s) |-> LowerChar(s[i])]

includes(s, q) ==
    \E i \in 0..(Len(s) - Len(q)) : SubSeq(s, i + 1, i + Len(q)) = q

-----------------------------------------------------------------------------
(* Remote task service *)

TaskOf(id, srv) ==
    [id |-> id,
     title |-> Catalog[id].title,
     hasDescription |-> Catalog[id].hasDescription,
     description |-> Catalog[id].description,
     is_completed |-> (srv[id] = "done")]

Selected(f, id, srv) ==
    /\ srv[id] # "gone"
    /\ CASE f = "all" -> TRUE
         [] f = "completed" -> srv[id] = "done"
         [] OTHER -> Catalog[id].due = f

RECURSIVE TasksFrom(_, _, _)
TasksFrom(i, f, srv) ==
    IF i > Len(Catalog) THEN <<>>
    ELSE (IF Selected(f, i, srv) THEN <<TaskOf(i, srv)>> ELSE <<>>)
         \o TasksFrom(i + 1, f, srv)

getTasks(f, srv) == TasksFrom(1, f, srv)

updateTask(id, value, srv) ==
    [srv EXCEPT ![id] = IF value THEN "done" ELSE "open"]

deleteTaskRemote(id, srv) == [srv EXCEPT ![id] = "gone"]

-----------------------------------------------------------------------------
(* Requests in flight *)

Req(kind, id, value, was, f, cause) ==
    [kind |-> kind, id |-> id, value |-> value, was |-> was, filter |-> f,
     cause |-> cause, st |-> "sent", result |-> <<>>, alone |-> TRUE]

One(r) == SetToBag({r})

Requests == BagToSet(net)

InFlight == BagCardinality(net)

CanSend == InFlight < MaxInFlight

\* r belongs to a toggle of task id: its updateTask request or its reload.
OfToggle(r, id) == r.id = id /\ (r.kind = "updateTask" \/ r.cause = "toggle")

NotAlone(r, id) == IF OfToggle(r, id) THEN [r EXCEPT !.alone = FALSE] ELSE r

\* The requests b, with those of a toggle of task id marked as overlapped by
\* another toggle of the same task.
Overlapped(b, id) ==
    LET S == BagToSet(b)
        Copies(x) == { r \in S : NotAlone(r, id) = x }
    IN  [x \in { NotAlone(r, id) : r \in S } |->
            BagCardinality([r \in Copies(x) |-> b[r]])]

Ids(ts) == { ts[i].id : i \in 1..Len(ts) }

-----------------------------------------------------------------------------
(* TasksScreen: search *)

\* MatchesQuery as it would be with the query compared as typed.
MatchesQuery_QueryAsTyped(task, q) ==
    \/ includes(toLowerCase(task.title), q)
    \/ (task.hasDescription /\ includes(toLowerCase(task.description), q))

MatchesQuery(task, q) ==
    \/ includes(toLowerCase(task.title), toLowerCase(q))
    \/ (task.hasDescription /\ includes(toLowerCase(task.description), toLowerCase(q)))

filterTasks(ts, q) ==
    IF q # <<>> THEN SelectSeq(ts, LAMBDA t : MatchesQuery(t, q)) ELSE ts

-----------------------------------------------------------------------------
(* TasksScreen: loadTasks *)

NoDialog == [open |-> FALSE, id |-> 0, filter |-> "all", answer |-> "none"]

\* loadTasks up to its await: setRefreshing(true) and the getTasks request, added
\* to the requests `base`.  `f` is the filter of the render that made the closure.
loadTasks(f, cause, id, was, alone, base) ==
    /\ refreshing' = TRUE
    /\ net' = base (+) One([Req("getTasks", id, FALSE, was, f, cause)
                            EXCEPT !.alone = alone])

\* loadTasks resumed by a resolved getTasks: setTasks, the [searchQuery, tasks]
\* effect, and the finally block.
LoadSucceeded(r) ==
    /\ mounted
    /\ BagIn(r, net) /\ r.kind = "getTasks" /\ r.st = "ok"
    /\ net' = net (-) One(r)
    /\ tasks' = r.result
    /\ filteredTasks' = filterTasks(r.result, searchQuery)
    /\ refreshing' = FALSE
    /\ tasksFilter' = r.filter
    /\ deleteReloaded' = IF r.cause = "delete" THEN deleteReloaded \cup {r.id}
                         ELSE deleteReloaded
    /\ UNCHANGED <<appVars, server, mounted, searchQuery, filter, confirmDialog, alerts, gestures>>

\* LoadFailed as it would be with setRefreshing(false) after setTasks in the try
\* block and no finally block.
LoadFailed_NoFinally(r) ==
    /\ mounted
    /\ BagIn(r, net) /\ r.kind = "getTasks" /\ r.st = "sent"
    /\ net' = net (-) One(r)
    /\ alerts' = Append(alerts, LoadFailedMsg)
    /\ UNCHANGED <<appVars, server, mounted, tasks, filteredTasks, refreshing, searchQuery,
                   filter, confirmDialog, tasksFilter, deleteReloaded, gestures>>

\* loadTasks resumed by a rejected getTasks (a transport or server error, which
\* changes nothing at the service): the catch block and the finally block.
LoadFailed(r) ==
    /\ mounted
    /\ BagIn(r, net) /\ r.kind = "getTasks" /\ r.st = "sent"
    /\ net' = net (-) One(r)
    /\ alerts' = Append(alerts, LoadFailedMsg)
    /\ refreshing' = FALSE
    /\ UNCHANGED <<appVars, server, mounted, tasks, filteredTasks, searchQuery, filter,
                   confirmDialog, tasksFilter, deleteReloaded, gestures>>

\* The controls of the screen respond while no confirmation is open (Alert.alert
\* shows a modal dialog) and, in this model, while gestures remain.
UserCanAct == mounted /\ ~confirmDialog.open /\ gestures < MaxGestures

Gesture == gestures' = gestures + 1

\* A filter button: setFilter, and the [filter] effect of the next render.  Setting
\* the filter it already has renders nothing and runs no effect.
SetFilter(f) ==
    /\ UserCanAct /\ CanSend
    /\ f # filter
    /\ filter' = f
    /\ loadTasks(f, "load", 0, FALSE, TRUE, net)
    /\ Gesture
    /\ UNCHANGED <<appVars, server, mounted, tasks, filteredTasks, searchQuery,
                   confirmDialog, alerts, tasksFilter, deleteReloaded>>

\* Pull to refresh: RefreshControl onRefresh={loadTasks}.
Refresh ==
    /\ UserCanAct /\ CanSend
    /\ loadTasks(filter, "load", 0, FALSE, TRUE, net)
    /\ Gesture
    /\ UNCHANGED <<appVars, server, mounted, tasks, filteredTasks, searchQuery, filter,
                   confirmDialog, alerts, tasksFilter, deleteReloaded>>

\* Searchbar onChangeText={setSearchQuery}, and the [searchQuery, tasks] effect.
SetSearchQuery(q) ==
    /\ UserCanAct
    /\ q # searchQuery
    /\ searchQuery' = q
    /\ filteredTasks' = filterTasks(tasks, q)
    /\ Gesture
    /\ UNCHANGED <<appVars, server, mounted, tasks, refreshing, filter, confirmDialog,
                   alerts, net, tasksFilter, deleteReloaded>>

-----------------------------------------------------------------------------
(* TasksScreen: toggleTaskCompletion *)

\* toggleTaskCompletion as it would be sending isCompleted and not its negation.
toggleTaskCompletion_SendsSame(taskId, isCompleted) ==
    /\ net' = Overlapped(net, taskId)
              (+) One([Req("updateTask", taskId, isCompleted, isCompleted, filter,
                           "toggle")
                       EXCEPT !.alone = \A r \in Requests : ~OfToggle(r, taskId)])
    /\ Gesture
    /\ UNCHANGED <<appVars, server, mounted, tasks, filteredTasks, refreshing, searchQuery,
                   filter, confirmDialog, alerts, tasksFilter, deleteReloaded>>

\* toggleTaskCompletion(taskId, isCompleted) up to its await.
toggleTaskCompletion(taskId, isCompleted) ==
    /\ net' = Overlapped(net, taskId)
              (+) One([Req("updateTask", taskId, ~isCompleted, isCompleted, filter,
                           "toggle")
                       EXCEPT !.alone = \A r \in Requests : ~OfToggle(r, taskId)])
    /\ Gesture
    /\ UNCHANGED <<appVars, server, mounted, tasks, filteredTasks, refreshing, searchQuery,
                   filter, confirmDialog, alerts, tasksFilter, deleteReloaded>>

\* The check icon of a rendered item.
PressToggle(i) ==
    /\ UserCanAct /\ CanSend
    /\ i \in 1..Len(filteredTasks)
    /\ toggleTaskCompletion(filteredTasks[i].id, filteredTasks[i].is_completed)

\* Resumed by a resolved updateTask: loadTasks().
ToggleSucceeded(r) ==
    /\ mounted
    /\ BagIn(r, net) /\ r.kind = "updateTask" /\ r.st = "ok"
    /\ loadTasks(r.filter, "toggle", r.id, r.was, r.alone, net (-) One(r))
    /\ UNCHANGED <<appVars, server, mounted, tasks, filteredTasks, searchQuery, filter,
                   confirmDialog, alerts, tasksFilter, deleteReloaded, gestures>>

\* ToggleFailed as it would be with loadTasks() after the try block.
ToggleFailed_Reloads(r) ==
    /\ mounted
    /\ BagIn(r, net) /\ r.kind = "updateTask" /\ r.st = "sent"
    /\ alerts' = Append(alerts, UpdateFailedMsg)
    /\ loadTasks(r.filter, "load", 0, FALSE, TRUE, net (-) One(r))
    /\ UNCHANGED <<appVars, server, mounted, tasks, filteredTasks, searchQuery, filter,
                   confirmDialog, tasksFilter, deleteReloaded, gestures>>

\* Resumed by a rejected updateTask: the catch block.
ToggleFailed(r) ==
    /\ mounted
    /\ BagIn(r, net) /\ r.kind = "updateTask" /\ r.st = "sent"
    /\ net' = net (-) One(r)
    /\ alerts' = Append(alerts, UpdateFailedMsg)
    /\ UNCHANGED <<appVars, server, mounted, tasks, filteredTasks, refreshing, searchQuery,
                   filter, confirmDialog, tasksFilter, deleteReloaded, gestures>>

-----------------------------------------------------------------------------
(* TasksScreen: deleteTask *)

\* deleteTask as it would be without the confirmation dialog.
deleteTask_Immediate(taskId) ==
    /\ net' = net (+) One(Req("deleteTask", taskId, FALSE, FALSE, filter, "delete"))
    /\ Gesture
    /\ UNCHANGED <<appVars, server, mounted, tasks, filteredTasks, refreshing, searchQuery,
                   filter, confirmDialog, alerts, tasksFilter, deleteReloaded>>

\* deleteTask(taskId): Alert.alert with the two buttons; nothing is sent.
deleteTask(taskId) ==
    /\ confirmDialog' = [open |-> TRUE, id |-> taskId, filter |-> filter,
                         answer |-> "none"]
    /\ Gesture
    /\ UNCHANGED <<appVars, server, mounted, tasks, filteredTasks, refreshing, searchQuery,
                   filter, alerts, net, tasksFilter, deleteReloaded>>

\* The delete button of a rendered item.
PressDelete(i) ==
    /\ UserCanAct
    /\ i \in 1..Len(filteredTasks)
    /\ deleteTask(filteredTasks[i].id)

\* The button without onPress, or the dialog dismissed.
CancelDelete ==
    /\ mounted /\ confirmDialog.open
    /\ confirmDialog' = [NoDialog EXCEPT !.answer = "cancel"]
    /\ UNCHANGED <<appVars, server, mounted, tasks, filteredTasks, refreshing, searchQuery,
                   filter, alerts, net, tasksFilter, deleteReloaded, gestures>>

\* The destructive button: onPress up to its await.
ConfirmDelete ==
    /\ mounted /\ confirmDialog.open /\ CanSend
    /\ confirmDialog' = [NoDialog EXCEPT !.answer = "yes"]
    /\ net' = net (+) One(Req("deleteTask", confirmDialog.id, FALSE, FALSE,
                              confirmDialog.filter, "delete"))
    /\ UNCHANGED <<appVars, server, mounted, tasks, filteredTasks, refreshing, searchQuery,
                   filter, alerts, tasksFilter, deleteReloaded, gestures>>

\* onPress resumed by a resolved deleteTask: loadTasks().
DeleteSucceeded(r) ==
    /\ mounted
    /\ BagIn(r, net) /\ r.kind = "deleteTask" /\ r.st = "ok"
    /\ loadTasks(r.filter, "delete", r.id, FALSE, TRUE, net (-) One(r))
    /\ UNCHANGED <<appVars, server, mounted, tasks, filteredTasks, searchQuery, filter,
                   confirmDialog, alerts, tasksFilter, deleteReloaded, gestures>>

\* onPress resumed by a rejected deleteTask: the catch block.
DeleteFailed(r) ==
    /\ mounted
    /\ BagIn(r, net) /\ r.kind = "deleteTask" /\ r.st = "sent"
    /\ net' = net (-) One(r)
    /\ alerts' = Append(alerts, DeleteFailedMsg)
    /\ UNCHANGED <<appVars, server, mounted, tasks, filteredTasks, refreshing, searchQuery,
                   filter, confirmDialog, tasksFilter, deleteReloaded, gestures>>

-----------------------------------------------------------------------------
(* Remote task service handling a request *)

Settle(r, st, result) ==
    net' = (net (-) One(r)) (+) One([r EXCEPT !.st = st, !.result = result])

ServeGetTasks(r) ==
    /\ BagIn(r, net) /\ r.kind = "getTasks" /\ r.st = "sent"
    /\ Settle(r, "ok", getTasks(r.filter, server))
    /\ UNCHANGED <<appVars, server, mounted, tasks, filteredTasks, refreshing, searchQuery,
                   filter, confirmDialog, alerts, tasksFilter, deleteReloaded, gestures>>

ServeUpdateTask(r) ==
    /\ BagIn(r, net) /\ r.kind = "updateTask" /\ r.st = "sent"
    /\ server[r.id] # "gone"
    /\ server' = updateTask(r.id, r.value, server)
    /\ Settle(r, "ok", <<>>)
    /\ UNCHANGED <<appVars, mounted, tasks, filteredTasks, refreshing, searchQuery,
                   filter, confirmDialog, alerts, tasksFilter, deleteReloaded, gestures>>

ServeDeleteTask(r) ==
    /\ BagIn(r, net) /\ r.kind = "deleteTask" /\ r.st = "sent"
    /\ server[r.id] # "gone"
    /\ server' = deleteTaskRemote(r.id, server)
    /\ Settle(r, "ok", <<>>)
    /\ UNCHANGED <<appVars, mounted, tasks, filteredTasks, refreshing, searchQuery,
                   filter, confirmDialog, alerts, tasksFilter, deleteReloaded, gestures>>

-----------------------------------------------------------------------------
(* App *)

\* What the App function returns for the current state.
Root ==
    IF appPc \in {"start", "crashed"} THEN "none"
    ELSE IF isLoading THEN "Splash"
    ELSE IF userToken = Null THEN "Login"
    ELSE "Main"

\* The first render of TasksScreen under the Main root, and its two effects.
MountTasksScreen ==
    /\ mounted' = TRUE
    /\ filteredTasks' = filterTasks(tasks, searchQuery)
    /\ loadTasks(filter, "load", 0, FALSE, TRUE, net)
    /\ UNCHANGED <<tasks, searchQuery, filter, confirmDialog, alerts, tasksFilter,
                   deleteReloaded, gestures>>

\* The first render of App and the [] effect.  The render takes the isLoading
\* branch, which evaluates the identifier SplashScreen; App.js neither imports nor
\* defines it, so the render throws unless the build binds it as a global.
AppStart ==
    /\ appPc = "start"
    /\ IF isLoading /\ ~splashBound
       THEN /\ appPc' = "crashed"
            /\ getTokenCalls' = getTokenCalls
       ELSE /\ appPc' = "awaitToken"
            /\ getTokenCalls' = getTokenCalls + 1
    /\ UNCHANGED <<isLoading, userToken, splashBound, authStore, obtained, server,
                   screenVars>>

\* bootstrapAsync resumed by a resolved getToken: setUserToken, then the finally block.
TokenResolved ==
    /\ appPc = "awaitToken"
    /\ userToken' = authStore
    /\ obtained' = authStore
    /\ isLoading' = FALSE
    /\ appPc' = "done"
    /\ IF authStore # Null THEN MountTasksScreen ELSE UNCHANGED screenVars
    /\ UNCHANGED <<splashBound, authStore, getTokenCalls, server>>

\* bootstrapAsync resumed by a rejected getToken: console.error, then the finally block.
TokenRejected ==
    /\ appPc = "awaitToken"
    /\ isLoading' = FALSE
    /\ appPc' = "done"
    /\ UNCHANGED <<userToken, splashBound, authStore, getTokenCalls, obtained, server,
                   screenVars>>

-----------------------------------------------------------------------------
(* Specification *)

Init ==
    /\ isLoading = TRUE
    /\ userToken = Null
    /\ appPc = "start"
    /\ splashBound \in BOOLEAN
    /\ authStore \in {Null, Token}
    /\ getTokenCalls = 0
    /\ obtained = Null
    /\ server = [id \in TaskIds |-> IF Catalog[id].due = "today" THEN "open" ELSE "done"]
    /\ mounted = FALSE
    /\ tasks = <<>>
    /\ filteredTasks = <<>>
    /\ refreshing = FALSE
    /\ searchQuery = <<>>
    /\ filter = "all"
    /\ confirmDialog = NoDialog
    /\ alerts = <<>>
    /\ net = EmptyBag
    /\ tasksFilter = "none"
    /\ deleteReloaded = {}
    /\ gestures = 0

Next ==
    \/ AppStart
    \/ TokenResolved
    \/ TokenRejected
    \/ \E f \in Filters : SetFilter(f)
    \/ Refresh
    \/ \E q \in Queries : SetSearchQuery(q)
    \/ \E i \in TaskIds : PressToggle(i)
    \/ \E i \in TaskIds : PressDelete(i)
    \/ CancelDelete
    \/ ConfirmDelete
    \/ \E r \in Requests : ServeGetTasks(r)
    \/ \E r \in Requests : ServeUpdateTask(r)
    \/ \E r \in Requests : ServeDeleteTask(r)
    \/ \E r \in Requests : LoadSucceeded(r)
    \/ \E r \in Requests : LoadFailed(r)
    \/ \E r \in Requests : ToggleSucceeded(r)
    \/ \E r \in Requests : ToggleFailed(r)
    \/ \E r \in Requests : DeleteSucceeded(r)
    \/ \E r \in Requests : DeleteFailed(r)

Spec == Init /\ [][Next]_vars

\* toggleTaskCompletion called with any id of the service and any flag, as its
\* signature allows.
CallToggle(taskId, isCompleted) ==
    /\ UserCanAct /\ CanSend
    /\ toggleTaskCompletion(taskId, isCompleted)

NextApi ==
    \/ Next
    \/ \E id \in TaskIds, b \in BOOLEAN : CallToggle(id, b)

SpecApi == Init /\ [][NextApi]_vars

-----------------------------------------------------------------------------
(* Steps, as seen in the requests in flight *)

Settled(b) == { r \in BagToSet(b) : r.st = "ok" }

SettledCount(b) == BagCardinality([r \in Settled(b) |-> b[r]])

\* The number of requests in b that are r, whether overlapped or not.
Count(r, b) ==
    LET Same == { x \in BagToSet(b) : [x EXCEPT !.alone = TRUE] = [r EXCEPT !.alone = TRUE] }
    IN  BagCardinality([x \in Same |-> b[x]])

\* This step dispatches the request r.
Dispatched(r) == r.st = "sent" /\ Count(r, net') > Count(r, net)

\* This step resumes the caller of r with a rejection.
Rejected(r) ==
    /\ r.st = "sent"
    /\ Count(r, net') < Count(r, net)
    /\ SettledCount(net') = SettledCount(net)

\* This step resumes the caller of r with its result.
Resolved(r) == r.st = "ok" /\ Count(r, net') < Count(r, net)

Last(s) == s[Len(s)]

-----------------------------------------------------------------------------
(* Claims *)

\* C1: a loadTasks call whose getTasks rejects leaves tasks and filteredTasks as
\* they were immediately before, raises the load error notification, and leaves
\* refreshing false when it has finished.
C1_LoadFailure ==
    [][\A r \in Requests :
          (r.kind = "getTasks" /\ Rejected(r)) =>
              /\ tasks' = tasks
              /\ filteredTasks' = filteredTasks
              /\ alerts' = Append(alerts, LoadFailedMsg)
              /\ refreshing' = FALSE]_vars

\* A load failed after an earlier load had filled the list.
C1_Witness ==
    /\ alerts # <<>> /\ Last(alerts) = LoadFailedMsg
    /\ tasks # <<>> /\ filteredTasks # <<>>
    /\ ~refreshing

\* C2: when the reload triggered by a successful toggleTaskCompletion(id)
\* completes, the task with that id in tasks has is_completed equal to the negation
\* of the value the list showed when the toggle was invoked, whatever other loads,
\* toggles and filter changes of the screen are interleaved.
C2_ToggleNegates ==
    [][\A r \in Requests :
          (r.kind = "getTasks" /\ r.cause = "toggle" /\ Resolved(r)) =>
              \A i \in 1..Len(tasks') :
                  tasks'[i].id = r.id => tasks'[i].is_completed = ~r.was]_vars

\* C2 as amended: the same, for a toggle that no other toggle of the same task
\* overlaps between its invocation and the completion of its reload.
C2_ToggleNegatesAlone ==
    [][\A r \in Requests :
          (r.kind = "getTasks" /\ r.cause = "toggle" /\ r.alone /\ Resolved(r)) =>
              \A i \in 1..Len(tasks') :
                  tasks'[i].id = r.id => tasks'[i].is_completed = ~r.was]_vars

\* The only toggle so far and its reload have completed without a failure while
\* the load of a filter change is still in flight, and the list shows the task
\* with the flag changed from the value the service started with.
C2_Witness ==
    /\ gestures = 2 /\ alerts = <<>>
    /\ \E r \in Requests : r.kind = "getTasks" /\ r.cause = "load" /\ r.filter # "all"
    /\ \A r \in Requests : r.cause # "toggle"
    /\ \E i \in DOMAIN tasks :
           /\ Catalog[tasks[i].id].due = "today"
           /\ tasks[i].is_completed
           /\ server[tasks[i].id] = "done"

\* C3: once a confirmed delete of id has succeeded and its reload has completed,
\* no task with that id is in tasks or filteredTasks, also when a load issued
\* before the delete completes afterwards.
C3_DeletedStaysAbsent ==
    \A id \in deleteReloaded : id \notin Ids(tasks) /\ id \notin Ids(filteredTasks)

\* C4: toggleTaskCompletion invoked with an id that is not in tasks sends no
\* updateTask request.
C4_AbsentIdSendsNothing ==
    [][\A r \in BagToSet(net') :
          (r.kind = "updateTask" /\ Dispatched(r)) => r.id \in Ids(tasks)]_vars

\* C5: a deleteTask request is dispatched only by the affirmative answer to the
\* confirmation opened for that id; closing the confirmation in any other way
\* dispatches nothing, starts no reload and leaves the list unchanged.
C5_DeleteNeedsConfirmation ==
    [][/\ \A r \in BagToSet(net') :
              (r.kind = "deleteTask" /\ Dispatched(r)) =>
                  /\ confirmDialog.open /\ confirmDialog.id = r.id
                  /\ ~confirmDialog'.open /\ confirmDialog'.answer = "yes"
       /\ (confirmDialog.open /\ ~confirmDialog'.open /\ confirmDialog'.answer # "yes") =>
              /\ net' = net
              /\ server' = server
              /\ tasks' = tasks /\ filteredTasks' = filteredTasks
              /\ refreshing' = refreshing]_vars

\* A confirmed delete is in flight and a later confirmation was cancelled.
C5_Witness ==
    /\ \E r \in Requests : r.kind = "deleteTask"
    /\ confirmDialog.answer = "cancel"
    /\ tasks # <<>>

\* The letters a and b in either case.
SameLetter(c, d) == c = d \/ {c, d} \in {{"a", "A"}, {"b", "B"}}

ContainsIgnoringCase(s, q) ==
    \E k \in 0..(Len(s) - Len(q)) : \A j \in 1..Len(q) : SameLetter(s[k + j], q[j])

Found(task, q) ==
    \/ ContainsIgnoringCase(task.title, q)
    \/ (task.hasDescription /\ ContainsIgnoringCase(task.description, q))

\* C6: filteredTasks is the subsequence of tasks whose title, or description when
\* present, contains searchQuery ignoring case; with an empty query it is tasks.
C6_FilteredIsSearch ==
    /\ filteredTasks = SelectSeq(tasks, LAMBDA t : Found(t, searchQuery))
    /\ searchQuery = <<>> => filteredTasks = tasks

\* A query in mixed case keeps one task of two.
C6_Witness ==
    /\ mounted /\ searchQuery # <<>>
    /\ Len(tasks) = Len(Catalog) /\ Len(filteredTasks) = Len(tasks) - 1

\* C7: a rejected updateTask or deleteTask leaves tasks and filteredTasks
\* unchanged, raises the matching error notification, and sends nothing: no
\* reload and no second attempt.
C7_MutationFailure ==
    [][\A r \in Requests :
          (r.kind \in {"updateTask", "deleteTask"} /\ Rejected(r)) =>
              /\ tasks' = tasks
              /\ filteredTasks' = filteredTasks
              /\ alerts' = Append(alerts, IF r.kind = "updateTask" THEN UpdateFailedMsg
                                          ELSE DeleteFailedMsg)
              /\ net' = net (-) One(r)
              /\ refreshing' = refreshing]_vars

\* Both an update and a delete have failed, with tasks loaded.
C7_Witness ==
    /\ \E i \in DOMAIN alerts : alerts[i] = UpdateFailedMsg
    /\ \E i \in DOMAIN alerts : alerts[i] = DeleteFailedMsg
    /\ tasks # <<>>
    /\ net = EmptyBag

\* C8: once App has started, getToken has been requested exactly once; while
\* isLoading neither root is shown; when isLoading is false the root is Login
\* exactly when no token was obtained and Main otherwise.
C8_Bootstrap ==
    /\ appPc # "start" => getTokenCalls = 1
    /\ isLoading => Root \notin {"Login", "Main"}
    /\ (appPc # "start" /\ ~isLoading) => Root = IF obtained = Null THEN "Login" ELSE "Main"

\* C9: refreshing is true in every state in which a getTasks request is in flight.
C9_RefreshingWhileLoading ==
    (\E r \in Requests : r.kind = "getTasks") => refreshing

\* C10: with no request in flight, after a successful load and with no failure so
\* far, tasks is the result of a getTasks request made for the active filter.
C10_TasksOfActiveFilter ==
    (mounted /\ net = EmptyBag /\ tasksFilter # "none" /\ alerts = <<>>) =>
        tasksFilter = filter

====
